---- MODULE Spec2Model ----
(***************************************************************************)
(* State-machine model of the indexing and ranking core of MIR-project:    *)
(*   Logic/core/indexer/index.py   (class Index)                           *)
(*   Logic/core/search.py          (class SearchEngine)                    *)
(*                                                                         *)
(* Python values are represented as follows.                               *)
(*   str            a sequence of one-character strings, so that           *)
(*                  str.split() is computed and not assumed                *)
(*   list           a sequence                                             *)
(*   None-able list a record [null, entries]                               *)
(*   dict           a function whose DOMAIN is the key set; a dict whose   *)
(*                  iteration order is observable (the score maps of       *)
(*                  search.py) is a sequence of [doc, score] records in    *)
(*                  insertion order                                        *)
(*   document id    a natural number; < on ids is the order of the id      *)
(*                  strings                                                *)
(***************************************************************************)
EXTENDS Integers, Sequences, FiniteSets, TLC

(***************************************************************************)
(* Bounds of the model.                                                    *)
(***************************************************************************)
\* document ids are 1..NumIds
NumIds == 2
\* the corpus handed to Index.__init__ holds at most MaxCorpus documents
MaxCorpus == 1
\* the corpus of the build-only specification holds at most MaxBuild documents
MaxBuild == 2
\* at most MaxOps calls of add_document_to_index / remove_document_from_index
MaxOps == 2

Ids == 1..NumIds

(***************************************************************************)
(* Strings and str.split().                                                *)
(***************************************************************************)
SP == " "

\* the strings that occur as entries of a field (already preprocessed text)
S_a == <<"a">>
S_b == <<"b">>
S_ab == <<"a", SP, "b">>
S_b_a == <<SP, "b", SP, SP, "a">>
S_aa == <<"a", SP, "a">>

\* the words get_posting_list is asked for; <<"z">> occurs in no document
Terms == {S_a, S_b, <<"z">>}

\* str.split() with no argument: the maximal runs of non-blank characters
RECURSIVE SplitFrom(_, _, _)
SplitFrom(s, i, cur) ==
    IF i > Len(s)
    THEN IF cur = <<>> THEN <<>> ELSE <<cur>>
    ELSE IF s[i] = SP
         THEN IF cur = <<>>
              THEN SplitFrom(s, i + 1, <<>>)
              ELSE <<cur>> \o SplitFrom(s, i + 1, <<>>)
         ELSE SplitFrom(s, i + 1, Append(cur, s[i]))

split(s) == SplitFrom(s, 1, <<>>)

\* list.count(x)
RECURSIVE count(_, _)
count(words, w) ==
    IF words = <<>> THEN 0
    ELSE (IF Head(words) = w THEN 1 ELSE 0) + count(Tail(words), w)

\* set(list)
Range(seq) == {seq[i] : i \in 1..Len(seq)}

(***************************************************************************)
(* Documents.                                                              *)
(***************************************************************************)
Null == [null |-> TRUE, entries |-> <<>>]
List(es) == [null |-> FALSE, entries |-> es]

IndexableFields == {"stars", "genres", "summaries"}

\* the field values a document may carry: lists of one or two strings, an
\* empty list, null (before and after a field that holds tokens)
Bodies ==
    { [stars |-> List(<<S_a>>), genres |-> List(<<S_b>>),
       summaries |-> List(<<S_ab, S_a>>)],
      [stars |-> List(<<S_b_a>>), genres |-> List(<<>>),
       summaries |-> List(<<S_aa>>)],
      [stars |-> Null, genres |-> List(<<S_a>>), summaries |-> Null],
      [stars |-> List(<<S_a>>), genres |-> Null, summaries |-> List(<<S_b>>)] }

Doc(i, b) == [id |-> i, stars |-> b.stars, genres |-> b.genres,
              summaries |-> b.summaries]

Docs == {Doc(i, b) : i \in Ids, b \in Bodies}

\* the corpora: lists of at most MaxCorpus documents with distinct ids
RECURSIVE CorporaOfLen(_)
CorporaOfLen(n) ==
    IF n = 0 THEN {<<>>}
    ELSE {Append(c, d) : c \in CorporaOfLen(n - 1), d \in Docs}

DistinctIds(c) == \A i, j \in 1..Len(c) : i # j => c[i].id # c[j].id

CorporaUpTo(max) ==
    {c \in UNION {CorporaOfLen(n) : n \in 0..max} : DistinctIds(c)}

(***************************************************************************)
(* Index.__init__ : the four indexes built from the corpus.                *)
(***************************************************************************)
EmptyDict == <<>>

\* dict.update({k: v})
Put(d, k, v) == [x \in DOMAIN d \cup {k} |-> IF x = k THEN v ELSE d[x]]

\* dict.pop(k)
Pop(d, k) == [x \in DOMAIN d \ {k} |-> d[x]]

RECURSIVE Concat(_)
Concat(seqs) == IF seqs = <<>> THEN <<>> ELSE Head(seqs) \o Concat(Tail(seqs))

\* the words of a field as the build sees them: "if stars:" skips a null
\* and an empty list, each entry is split and the tokens concatenated
field_words(fv) ==
    IF fv.null \/ fv.entries = <<>> THEN <<>>
    ELSE Concat([i \in 1..Len(fv.entries) |-> split(fv.entries[i])])

\* index_one with the tf taken for a presence flag
MutIndexOnePresence(cur, id, words) ==
    [w \in DOMAIN cur \cup Range(words) |->
        IF w \in Range(words)
        THEN IF w \in DOMAIN cur
             THEN Put(cur[w], id, 1)
             ELSE Put(EmptyDict, id, 1)
        ELSE cur[w]]

\* one iteration of the loop over the documents: every distinct word of the
\* document gets the posting {id: count}; a word already present keeps its
\* other postings
index_one(cur, id, words) ==
    [w \in DOMAIN cur \cup Range(words) |->
        IF w \in Range(words)
        THEN IF w \in DOMAIN cur
             THEN Put(cur[w], id, count(words, w))
             ELSE Put(EmptyDict, id, count(words, w))
        ELSE cur[w]]

RECURSIVE index_field(_, _, _)
index_field(docs, field, cur) ==
    IF docs = <<>> THEN cur
    ELSE index_field(Tail(docs), field,
                     index_one(cur, Head(docs).id, field_words(Head(docs)[field])))

RECURSIVE index_documents_from(_, _)
index_documents_from(docs, cur) ==
    IF docs = <<>> THEN cur
    ELSE index_documents_from(Tail(docs), Put(cur, Head(docs).id, Head(docs)))

index_documents(docs) == index_documents_from(docs, EmptyDict)
index_stars(docs) == index_field(docs, "stars", EmptyDict)
index_genres(docs) == index_field(docs, "genres", EmptyDict)
index_summaries(docs) == index_field(docs, "summaries", EmptyDict)

build(docs) ==
    [documents |-> index_documents(docs),
     stars |-> index_stars(docs),
     genres |-> index_genres(docs),
     summaries |-> index_summaries(docs)]

(***************************************************************************)
(* Index.get_posting_list.                                                 *)
(* The value returned: kind "keys" is the key view of the posting dict,    *)
(* kind "list" the [] of the except branch, kind "None" the implicit       *)
(* return when no "if index_type == ..." matches.  Nothing is raised: the  *)
(* bare except catches every exception of the lookups.                     *)
(***************************************************************************)
IndexTypes == {"documents", "stars", "genres", "summaries", "title"}
KnownIndexTypes == {"documents", "stars", "genres", "summaries"}

Keys(ids) == [kind |-> "keys", ids |-> ids]
EmptyList == [kind |-> "list", ids |-> {}]
ReturnsNone == [kind |-> "None", ids |-> {}]
Raised(exc) == [kind |-> exc, ids |-> {}]

\* lookup_keys without the except branch
MutLookupNoExcept(fidx, word) ==
    IF word \in DOMAIN fidx THEN Keys(DOMAIN fidx[word]) ELSE Raised("KeyError")

\* self.index[...][word].keys() inside try/except
lookup_keys(fidx, word) ==
    IF word \in DOMAIN fidx THEN Keys(DOMAIN fidx[word]) ELSE EmptyList

\* word is a term; document ids are not terms, so the lookup of a term in
\* the document store raises KeyError, which the except branch turns into []
get_posting_list(idx, word, index_type) ==
    IF index_type = "documents" THEN EmptyList
    ELSE IF index_type = "stars" THEN lookup_keys(idx.stars, word)
    ELSE IF index_type = "genres" THEN lookup_keys(idx.genres, word)
    ELSE IF index_type = "summaries" THEN lookup_keys(idx.summaries, word)
    ELSE ReturnsNone

(***************************************************************************)
(* Index.add_document_to_index.                                            *)
(***************************************************************************)
\* words of a field as add_document_to_index collects them: "for genre in
\* doc_genres" with no test for None
add_words(fv) ==
    Concat([i \in 1..Len(fv.entries) |-> split(fv.entries[i])])

\* the loop over genres_tf / stars_tf / summary_tf: a new term gets
\* {id: tf}; a known term gets the posting added, or, when the id already
\* has a posting for it, tf added to the stored tf
add_field(fidx, id, words) ==
    [w \in DOMAIN fidx \cup Range(words) |->
        IF w \in Range(words)
        THEN IF w \notin DOMAIN fidx
             THEN Put(EmptyDict, id, count(words, w))
             ELSE IF id \notin DOMAIN fidx[w]
                  THEN Put(fidx[w], id, count(words, w))
                  ELSE Put(fidx[w], id, fidx[w][id] + count(words, w))
        ELSE fidx[w]]

\* the index after the call and whether the call raised.  The document is
\* stored first, then genres, stars and summaries are indexed in this
\* order; iterating a None field raises TypeError and leaves what was
\* written so far.
add_document_to_index(idx, document) ==
    LET i0 == [idx EXCEPT !.documents = Put(idx.documents, document.id, document)]
        i1 == [i0 EXCEPT !.genres =
                 add_field(i0.genres, document.id, add_words(document.genres))]
        i2 == [i1 EXCEPT !.stars =
                 add_field(i1.stars, document.id, add_words(document.stars))]
        i3 == [i2 EXCEPT !.summaries =
                 add_field(i2.summaries, document.id, add_words(document.summaries))]
    IN  IF document.genres.null THEN [index |-> i0, raised |-> TRUE]
        ELSE IF document.stars.null THEN [index |-> i1, raised |-> TRUE]
        ELSE IF document.summaries.null THEN [index |-> i2, raised |-> TRUE]
        ELSE [index |-> i3, raised |-> FALSE]

(***************************************************************************)
(* Index.remove_document_from_index.                                       *)
(***************************************************************************)
\* "for star in index: if document_id in index[star]: index[star].pop(id)"
\* the term key stays, also when its posting dict becomes empty
remove_from_field(fidx, id) ==
    [w \in DOMAIN fidx |-> IF id \in DOMAIN fidx[w] THEN Pop(fidx[w], id) ELSE fidx[w]]

remove_document_from_index(idx, id) ==
    [documents |-> IF id \in DOMAIN idx.documents
                   THEN Pop(idx.documents, id) ELSE idx.documents,
     stars |-> remove_from_field(idx.stars, id),
     genres |-> remove_from_field(idx.genres, id),
     summaries |-> remove_from_field(idx.summaries, id)]

(***************************************************************************)
(* The index as a state machine.                                           *)
(***************************************************************************)
VARIABLES
    preprocessed_documents, \* Index.preprocessed_documents
    index,                  \* Index.index
    returned,               \* the last call: its name, whether its index_type
                            \* was one of the four known ones, and what it
                            \* returned or raised
    trip,                   \* the copy of the index taken before the last add
                            \* (index_before_add of check_add_remove_is_correct),
                            \* the document added and how far the add / remove
                            \* pair has come
    mutations,              \* number of add / remove calls so far
    metadata_index,         \* Metadata_index.metadata_index
    files,                  \* the file system under the index path
    io,                     \* the last store_index / load_index call: its
                            \* arguments and the exception it raised, if any
    threads                 \* the add_document_to_index calls that run at
                            \* the same time, none when calls are serial

index_vars == <<preprocessed_documents, index, returned, trip, mutations,
                metadata_index, files, io, threads>>

EmptyIndex == build(<<>>)
NoDoc == Doc(0, [stars |-> Null, genres |-> Null, summaries |-> Null])
NoTrip == [stage |-> "none", doc |-> NoDoc, raised |-> FALSE, before |-> EmptyIndex]
Call(op, known, value) == [op |-> op, known_type |-> known, value |-> value]
NoCall == Call("-", TRUE, ReturnsNone)

(***************************************************************************)
(* SearchEngine: score maps.  A score map is a dict {doc: score} kept as   *)
(* the sequence of its items in insertion order.                           *)
(***************************************************************************)
\* a scorer gives each of the documents it lists a score of ScoreValues
ScoredIds == {1, 2}
ScoreValues == {1, 2}
\* a field weight is one of 0..MaxWeight
MaxWeight == 2
\* max_results is None or one of 0..MaxResults
MaxResults == 2

Item(doc, score) == [doc |-> doc, score |-> score]
KeysOf(d) == {d[i].doc : i \in 1..Len(d)}
PositionOf(d, k) == CHOOSE i \in 1..Len(d) : d[i].doc = k
ScoreOf(d, k) == d[PositionOf(d, k)].score

\* dict.update({k: v}): a key already present keeps its place
Update(d, k, v) ==
    IF k \in KeysOf(d)
    THEN [i \in 1..Len(d) |-> IF d[i].doc = k THEN Item(k, v) ELSE d[i]]
    ELSE Append(d, Item(k, v))

\* dict(sorted(d.items())): the items in ascending order of the key
SortedByKey(d) ==
    [i \in 1..Len(d) |->
        CHOOSE e \in Range(d) :
            Cardinality({x \in KeysOf(d) : x < e.doc}) = i - 1]

\* the score maps a scorer can return: any documents, in any order (the
\* scorers walk list(set(...)) of the posting keys)
RECURSIVE ScoreMapsOfLen(_)
ScoreMapsOfLen(n) ==
    IF n = 0 THEN {<<>>}
    ELSE {Append(d, Item(k, v)) :
             d \in ScoreMapsOfLen(n - 1), k \in ScoredIds, v \in ScoreValues}

ScoreMaps ==
    {d \in UNION {ScoreMapsOfLen(n) : n \in 0..Cardinality(ScoredIds)} :
        Cardinality(KeysOf(d)) = Len(d)}

(***************************************************************************)
(* SearchEngine.merge_scores.                                              *)
(***************************************************************************)
\* the inner loop "for doc2 in scores2.keys()" from position j on, for one
\* doc1 of the outer loop
RECURSIVE merge_inner(_, _, _, _)
merge_inner(merged, e1, scores2, j) ==
    IF j > Len(scores2) THEN merged
    ELSE LET e2 == scores2[j]
         IN  IF e1.doc = e2.doc
             THEN Update(merged, e1.doc, e1.score + e2.score)
             ELSE IF e1.doc < e2.doc
                  THEN Update(merged, e1.doc, e1.score)
                  ELSE merge_inner(Update(merged, e2.doc, e2.score), e1, scores2, j + 1)

\* the outer loop "for doc1 in scores1.keys()" from position i on
RECURSIVE merge_outer(_, _, _, _)
merge_outer(merged, scores1, scores2, i) ==
    IF i > Len(scores1) THEN merged
    ELSE merge_outer(merge_inner(merged, scores1[i], scores2, 1), scores1, scores2, i + 1)

merge_scores(scores1, scores2) ==
    IF scores1 = <<>>
    THEN IF scores2 = <<>> THEN scores1 ELSE scores2
    ELSE merge_outer(<<>>, SortedByKey(scores1), SortedByKey(scores2), 1)

(***************************************************************************)
(* SearchEngine.aggregate_scores and the tail of SearchEngine.search.      *)
(***************************************************************************)
AllFields == {"stars", "genres", "summaries"}

\* "field_scores[doc] *= w" for every doc of one field
weighted(field_scores, w) ==
    [i \in 1..Len(field_scores) |->
        Item(field_scores[i].doc, field_scores[i].score * w)]

\* the first loop of aggregate_scores
apply_weights(weights, scores) ==
    [f \in DOMAIN scores |-> weighted(scores[f], weights[f])]

\* the two merges; scores[Indexes.X] raises KeyError for a field that was
\* not scored
aggregate_scores(weighted_scores) ==
    merge_scores(merge_scores(weighted_scores["stars"], weighted_scores["genres"]),
                 weighted_scores["summaries"])

\* sorted(final_scores.items(), key=lambda x: x[1], reverse=True): the sort
\* is stable, items of equal score keep the order of final_scores
sorted_by_score(final) ==
    [p \in 1..Len(final) |->
        final[CHOOSE i \in 1..Len(final) :
                 Cardinality({j \in 1..Len(final) : final[j].score > final[i].score})
                 + Cardinality({j \in 1..(i - 1) : final[j].score = final[i].score})
                 = p - 1]]

\* truncate that keeps one entry too many
MutTruncateInclusive(result, max_results) ==
    IF max_results.none THEN result
    ELSE SubSeq(result, 1, IF max_results.k + 1 < Len(result)
                           THEN max_results.k + 1 ELSE Len(result))

\* result[:max_results] for max_results >= 0
truncate(result, max_results) ==
    IF max_results.none THEN result
    ELSE SubSeq(result, 1, IF max_results.k < Len(result) THEN max_results.k ELSE Len(result))

NoLimit == [none |-> TRUE, k |-> 0]
Limit(k) == [none |-> FALSE, k |-> k]
MaxResultsValues == {NoLimit} \cup {Limit(k) : k \in 0..MaxResults}

\* the weights mappings: any of the three fields may lack a weight
WeightMaps ==
    UNION {[S -> 0..MaxWeight] : S \in SUBSET AllFields}

(***************************************************************************)
(* Scorer (utility/scorer.py).  A float is kept as a multiple of 1/Scale;  *)
(* math.log is read from a table.                                          *)
(***************************************************************************)
Scale == 1000

\* round(Scale * ln(n)) for n = 1..8
LnTable == <<0, 693, 1099, 1386, 1609, 1792, 1946, 2079>>

\* math.log(num / den)
log(num, den) == LnTable[num] - LnTable[den]

\* x * y and x / y of two floats; the product is (x * y) \div Scale, taken
\* in two parts so that x * y need not fit the integers of the checker
Mul(x, y) == (x \div Scale) * y + ((x % Scale) * y) \div Scale
Div(x, y) == (x * Scale) \div y

RECURSIVE Sum(_)
Sum(seq) == IF seq = <<>> THEN 0 ELSE Head(seq) + Sum(Tail(seq))

\* sum of the values of a dict
RECURSIVE SumOf(_, _)
SumOf(d, keys) ==
    IF keys = {} THEN 0
    ELSE LET k == CHOOSE x \in keys : TRUE
         IN  d[k] + SumOf(d, keys \ {k})

\* a query is handed over either as a list of terms or as one str
Tokens(ts) == [is_str |-> FALSE, items |-> ts]
Str(s) == [is_str |-> TRUE, items |-> s]

\* "for term in query": the elements of a list, the characters of a str
terms_of(q) ==
    IF q.is_str THEN [i \in 1..Len(q.items) |-> <<q.items[i]>>] ELSE q.items

\* the lists list(set(...)) can return for a set
Orders(S) ==
    {o \in [1..Cardinality(S) -> S] : \A i, j \in 1..Cardinality(S) : i # j => o[i] # o[j]}

\* the set of list_of_documents; the caller gets it in one of Orders(...)
get_list_of_documents(idx, q) ==
    UNION {DOMAIN idx[t] : t \in Range(terms_of(q)) \cap DOMAIN idx}

\* a value or the exception raised instead of it
Value(v) == [raised |-> "", value |-> v]
Raise(exc) == [raised |-> exc, value |-> 0]

\* self.idf is never written, so the idf is always computed
get_idf(idx, N, term) ==
    LET df == IF term \in DOMAIN idx THEN Cardinality(DOMAIN idx[term]) ELSE 0
    IN  IF df = 0 THEN Raise("ZeroDivisionError")
        ELSE IF N = 0 THEN Raise("ValueError")
        ELSE Value(log(N, df))

\* {term: query.count(term) for term in query}
get_query_tfs(q) ==
    [t \in Range(terms_of(q)) |-> count(terms_of(q), t)]

\* str.split(sep)
RECURSIVE SplitOn(_, _, _, _)
SplitOn(s, sep, i, cur) ==
    IF i > Len(s) THEN <<cur>>
    ELSE IF s[i] = sep THEN <<cur>> \o SplitOn(s, sep, i + 1, <<>>)
    ELSE SplitOn(s, sep, i + 1, Append(cur, s[i]))

\* the first exception of a sequence of outcomes, "" if none raised
RECURSIVE FirstRaised(_)
FirstRaised(outs) ==
    IF outs = <<>> THEN ""
    ELSE IF Head(outs).raised # "" THEN Head(outs).raised
    ELSE FirstRaised(Tail(outs))

\* tf_weight with the logarithm subtracted
MutTfWeightMinusLog(scheme, tf) ==
    IF scheme[1] = "l" THEN Scale - log(tf, 1) ELSE tf * Scale

\* tf weight and idf weight of one vector component, by the letters of the
\* scheme; a letter other than 'l' / 't' leaves the natural value
tf_weight(scheme, tf) ==
    IF scheme[1] = "l" THEN Scale + log(tf, 1) ELSE tf * Scale
idf_weight(scheme, idf) ==
    IF scheme[2] = "t" THEN idf ELSE Scale

\* normalization multiplying by the Euclidean norm (the square root of the
\* dot product) would need a root; the code multiplies by the dot product
normalize(scheme, vec) ==
    IF scheme[3] = "c"
    THEN LET weight == Sum([i \in 1..Len(vec) |-> Mul(vec[i], vec[i])])
         IN  [i \in 1..Len(vec) |-> Mul(weight, vec[i])]
    ELSE vec

\* the loop "for term in query" that fills query_scores, with the
\* normalization; query_method[k] raises IndexError for a short scheme
query_vector(q, idfs, query_method) ==
    LET terms == terms_of(q)
        tfs == get_query_tfs(q)
    IN  IF Len(query_method) < 3 THEN Raise("IndexError")
        ELSE Value(normalize(query_method,
                 [i \in 1..Len(terms) |->
                     Mul(idf_weight(query_method, idfs[terms[i]]),
                         tf_weight(query_method, tfs[terms[i]]))]))

\* the body of "for doc in docs": self.index[term][doc] raises KeyError for
\* a document without a posting for the term
doc_vector(idx, q, idfs, doc, doc_method) ==
    LET terms == terms_of(q)
        missing == {i \in 1..Len(terms) :
                      terms[i] \notin DOMAIN idx \/ doc \notin DOMAIN idx[terms[i]]}
    IN  IF terms # <<>> /\ 1 \in missing THEN Raise("KeyError")
        ELSE IF terms # <<>> /\ Len(doc_method) < 2 THEN Raise("IndexError")
        ELSE IF missing # {} THEN Raise("KeyError")
        ELSE IF Len(doc_method) < 3 THEN Raise("IndexError")
        ELSE Value(normalize(doc_method,
                 [i \in 1..Len(terms) |->
                     Mul(tf_weight(doc_method, idx[terms[i]][doc]),
                         idf_weight(doc_method, idfs[terms[i]]))]))

\* score of one document: sum over the positions of the query
dot(query_scores, doc_scores) ==
    Sum([i \in 1..Len(query_scores) |-> Mul(query_scores[i], doc_scores[i])])

\* what a scorer hands back: a dict in insertion order, None, or an exception
Scores(d) == [kind |-> "scores", map |-> d]
NoneResult == [kind |-> "None", map |-> <<>>]
Raises(exc) == [kind |-> exc, map |-> <<>>]

\* docs is the list get_list_of_documents returned
compute_scores_with_vector_space_model(idx, N, q, method, docs) ==
    LET parts == SplitOn(method, ".", 1, <<>>)
        terms == terms_of(q)
        idf_outs == [i \in 1..Len(terms) |-> get_idf(idx, N, terms[i])]
        idfs == [t \in Range(terms) |->
                    get_idf(idx, N, t).value]
        qv == query_vector(q, idfs, parts[2])
        dvs == [k \in 1..Len(docs) |-> doc_vector(idx, q, idfs, docs[k], parts[1])]
    IN  IF Len(parts) < 2 THEN Raises("IndexError")
        ELSE IF FirstRaised(idf_outs) # "" THEN Raises(FirstRaised(idf_outs))
        ELSE IF qv.raised # "" THEN Raises(qv.raised)
        ELSE IF FirstRaised(dvs) # "" THEN Raises(FirstRaised(dvs))
        ELSE Scores([k \in 1..Len(docs) |-> Item(docs[k], dot(qv.value, dvs[k].value))])

\* "# TODO  pass"
compute_socres_with_okapi_bm25(idx, N, q, average_document_field_length, document_lengths) ==
    NoneResult

\* the defaults alpha = 0.5 and lamda = 0.5
alpha == 500
lamda == 500

\* the smoothed probability of one term; doc_tf / Ld of two ints raises
\* ZeroDivisionError for Ld = 0
term_score(smoothing_method, doc_tf, term_cf, Ld, T) ==
    IF smoothing_method = "bayes"
    THEN Value(Div(doc_tf * Scale + (alpha * term_cf) \div T, Ld * Scale + alpha))
    ELSE IF smoothing_method = "mixture"
    THEN IF Ld = 0 THEN Raise("ZeroDivisionError")
         ELSE Value(Mul(lamda, (doc_tf * Scale) \div Ld)
                    + Mul(Scale - lamda, (term_cf * Scale) \div T))
    ELSE IF smoothing_method = "naive"
    THEN IF Ld = 0 THEN Raise("ZeroDivisionError")
         ELSE Value((doc_tf * Scale) \div Ld)
    ELSE Value(0)

\* "score = 1" and "score *= term_score" for each term in turn
RECURSIVE ProductFrom(_, _)
ProductFrom(score, seq) ==
    IF seq = <<>> THEN score ELSE ProductFrom(Mul(score, Head(seq)), Tail(seq))

\* query.split() raises AttributeError for a list; self.index[term] raises
\* KeyError for a term that is no key of the index
compute_score_with_unigram_model(idx, q, document_id, smoothing_method, document_lengths) ==
    LET terms == split(q.items)
        T == SumOf(document_lengths, DOMAIN document_lengths)
        outs == [i \in 1..Len(terms) |->
                   IF terms[i] \notin DOMAIN idx THEN Raise("KeyError")
                   ELSE LET post == idx[terms[i]]
                            doc_tf == IF document_id \in DOMAIN post
                                      THEN post[document_id] ELSE 0
                            term_cf == SumOf(post, DOMAIN post)
                        IN  term_score(smoothing_method, doc_tf, term_cf,
                                       document_lengths[document_id], T)]
    IN  IF ~q.is_str THEN Raise("AttributeError")
        ELSE IF FirstRaised(outs) # "" THEN Raise(FirstRaised(outs))
        ELSE Value(ProductFrom(Scale, [i \in 1..Len(terms) |-> outs[i].value]))

\* documents is the list get_list_of_documents returned
compute_scores_with_unigram_model(idx, q, smoothing_method, document_lengths, documents) ==
    LET outs == [k \in 1..Len(documents) |->
                   compute_score_with_unigram_model(idx, q, documents[k],
                                                    smoothing_method, document_lengths)]
    IN  IF FirstRaised(outs) # "" THEN Raises(FirstRaised(outs))
        ELSE Scores([k \in 1..Len(documents) |-> Item(documents[k], outs[k].value)])

(***************************************************************************)
(* Metadata_index (indexer/metadata_index.py), built from the corpus of    *)
(* preprocessed_data.json.                                                 *)
(***************************************************************************)
\* np.mean of the lengths, one per document: len(doc[where]) for a field
\* that is neither None nor empty, else 0; the mean of no lengths is nan
get_average_document_field_length(documents, where) ==
    LET lengths == [i \in 1..Len(documents) |->
                      IF documents[i][where].null \/ documents[i][where].entries = <<>>
                      THEN 0 ELSE Len(documents[i][where].entries)]
    IN  IF lengths = <<>> THEN [nan |-> TRUE, value |-> 0]
        ELSE [nan |-> FALSE, value |-> Div(Sum(lengths), Len(lengths))]

create_metadata_index(documents) ==
    [built |-> TRUE,
     averge_document_length |->
         [where \in IndexableFields |->
             get_average_document_field_length(documents, where)],
     document_count |-> Len(documents)]

\* self.metadata_index = None
NoMetadata ==
    [built |-> FALSE,
     averge_document_length |-> [where \in IndexableFields |-> [nan |-> TRUE, value |-> 0]],
     document_count |-> 0]

(***************************************************************************)
(* Index.store_index / load_index.  The file system is a dict from path to *)
(* directory or file; a path is the sequence of the strings it was         *)
(* concatenated from; the text of a file is the JSON object written, as    *)
(* the sequence of its members <<key, value>>.                             *)
(***************************************************************************)
\* json.dump of a field index {term: {doc_id: tf}}: the members in the
\* order of the dict, the nested objects likewise
json_dump(fidx) ==
    LET terms == CHOOSE o \in Orders(DOMAIN fidx) : TRUE
        members(post) ==
            LET ids == CHOOSE o \in Orders(DOMAIN post) : TRUE
            IN  [j \in 1..Cardinality(DOMAIN post) |-> <<ids[j], post[ids[j]]>>]
    IN  [i \in 1..Cardinality(DOMAIN fidx) |-> <<terms[i], members(fidx[terms[i]])>>]

\* json.load: the dict of the members
json_load(text) ==
    LET object(members) ==
            [k \in {members[i][1] : i \in 1..Len(members)} |->
                members[CHOOSE i \in 1..Len(members) : members[i][1] = k][2]]
        top == object(text)
    IN  [t \in DOMAIN top |-> object(top[t])]

\* the paths store_index and load_index are called with: the directory,
\* and the file that store_index writes for stars
Paths == {<<"idx/">>, <<"idx/", "stars", "_index.json">>}

\* os.makedirs(path) for a path that does not exist, then the file
\* path + index_type + "_index.json" is written (index_type is not None)
store_index(fs, idx, path, index_type) ==
    LET made == IF path \in DOMAIN fs THEN fs
                ELSE Put(fs, path, [dir |-> TRUE, text |-> <<>>])
        file == path \o <<index_type, "_index.json">>
    IN  IF index_type \notin DOMAIN idx
        THEN [files |-> made, raised |-> "ValueError"]
        ELSE IF file \in DOMAIN made /\ made[file].dir
        THEN [files |-> made, raised |-> "IsADirectoryError"]
        ELSE [files |-> Put(made, file, [dir |-> FALSE,
                                          text |-> json_dump(idx[index_type])]),
              raised |-> ""]

\* os.makedirs(path) for a path that does not exist, then open(path, 'r'):
\* the path itself is opened, whatever the index type is
load_index(fs, idx, path, index_type) ==
    LET made == IF path \in DOMAIN fs THEN fs
                ELSE Put(fs, path, [dir |-> TRUE, text |-> <<>>])
    IN  IF index_type \notin DOMAIN idx
        THEN [files |-> made, index |-> idx, raised |-> "ValueError"]
        ELSE IF made[path].dir
        THEN [files |-> made, index |-> idx, raised |-> "IsADirectoryError"]
        ELSE [files |-> made,
              index |-> [idx EXCEPT ![index_type] = json_load(made[path].text)],
              raised |-> ""]

check_if_index_loaded_correctly(idx, index_type, loaded_index) ==
    idx[index_type] = loaded_index

(***************************************************************************)
(* Index.add_document_to_index step by step, for calls that run at the     *)
(* same time: each read and each write of a shared dict is one step.  A    *)
(* thread is [pc, document, work, alone]: work holds the <<field, term,    *)
(* tf>> still to be indexed, alone records whether the other call was      *)
(* running when this one began.                                            *)
(***************************************************************************)
\* genres_tf, stars_tf and summary_tf in the order the loops take them:
\* the fields in the order genres, stars, summaries, the terms of a field
\* in the order of its dict of a set
add_work(document) ==
    LET items(field, order) ==
            [i \in 1..Len(order) |->
                <<field, order[i], count(add_words(document[field]), order[i])>>]
    IN  {items("genres", og) \o items("stars", os) \o items("summaries", ow) :
            og \in Orders(Range(add_words(document.genres))),
            os \in Orders(Range(add_words(document.stars))),
            ow \in Orders(Range(add_words(document.summaries)))}

\* the posting dict written by a put that drops the other postings
MutPutPostingReplace(post, id, tf) == Put(EmptyDict, id, tf)

\* self.index[...][term].update({document['id']: tf})
put_posting(post, id, tf) == Put(post, id, tf)

\* one step of a thread: the index and the thread after it
add_step(idx, th) ==
    LET id == th.document.id
        field == Head(th.work)[1]
        term == Head(th.work)[2]
        tf == Head(th.work)[3]
        goes(pc) == [th EXCEPT !.pc = pc]
        next == [th EXCEPT !.work = Tail(th.work),
                           !.pc = IF Tail(th.work) = <<>> THEN "done" ELSE "test_term"]
        write(post) == [idx EXCEPT ![field] = Put(idx[field], term, post)]
    IN  CASE th.pc = "start" ->
               [index |-> [idx EXCEPT !.documents = Put(idx.documents, id, th.document)],
                thread |-> goes(IF th.work = <<>> THEN "done" ELSE "test_term")]
          [] th.pc = "test_term" ->
               [index |-> idx,
                thread |-> goes(IF term \notin DOMAIN idx[field]
                                THEN "insert_term" ELSE "test_id")]
          [] th.pc = "insert_term" ->
               [index |-> write(Put(EmptyDict, id, tf)), thread |-> next]
          [] th.pc = "test_id" ->
               [index |-> idx,
                thread |-> goes(IF id \notin DOMAIN idx[field][term]
                                THEN "update_posting" ELSE "add_tf")]
          [] th.pc = "update_posting" ->
               [index |-> write(put_posting(idx[field][term], id, tf)), thread |-> next]
          [] th.pc = "add_tf" ->
               [index |-> write(Put(idx[field][term], id, idx[field][term][id] + tf)),
                thread |-> next]

(***************************************************************************)
(* Tiered index (indexer/tiered_index.py, which index.py imports and       *)
(* store_index calls): the build, as section 4.3 of the specification      *)
(* describes it.                                                           *)
(***************************************************************************)
\* a term with up to MaxPostings postings
MaxPostings == 7
TierIds == 1..MaxPostings
TierTfs == {1, 2}
TierNames == {"first_tier", "second_tier", "third_tier"}

\* the posting dicts over a set of document ids
PostingDicts(ids, tfs) == UNION {[D -> tfs] : D \in SUBSET ids}

\* the field indexes the tiers are built from: the term a with any
\* postings, the term b with at most two; a term has at least one posting
TierSources ==
    {[t \in {S_a} |-> pa] : pa \in PostingDicts(TierIds, TierTfs) \ {EmptyDict}}
    \cup {[t \in {S_a, S_b} |-> IF t = S_a THEN pa ELSE pb] :
             pa \in PostingDicts(TierIds, TierTfs) \ {EmptyDict},
             pb \in PostingDicts({1, 2}, {1}) \ {EmptyDict}}

\* posting d comes before posting e: higher tf, or equal tf and lower id
comes_before(post, d, e) ==
    post[d] > post[e] \/ (post[d] = post[e] /\ d < e)

\* the document ids of a posting dict by (tf descending, id ascending)
sorted_postings(post) ==
    [i \in 1..Cardinality(DOMAIN post) |->
        CHOOSE d \in DOMAIN post :
            Cardinality({e \in DOMAIN post : comes_before(post, e, d)}) = i - 1]

\* tier size with the division rounded down
MutTierSizeFloor(n) == n \div 3

\* ceil(n / 3)
tier_size(n) == (n + 2) \div 3

\* tier bounds that let the second tier start on the last posting of the first
MutTierBoundsOverlap(n) ==
    LET c == tier_size(n)
        lo == IF c > 1 THEN c - 1 ELSE c
        hi == IF 2 * c < n THEN 2 * c ELSE n
    IN  [first_tier |-> <<1, IF c < n THEN c ELSE n>>,
         second_tier |-> <<lo + 1, hi>>,
         third_tier |-> <<hi + 1, n>>]

\* positions of the three tiers in the sorted postings of a term with n
\* postings: the first ceil(n/3), the next ceil(n/3) or what remains, the rest
tier_bounds(n) ==
    LET c == tier_size(n)
        hi == IF 2 * c < n THEN 2 * c ELSE n
    IN  [first_tier |-> <<1, IF c < n THEN c ELSE n>>,
         second_tier |-> <<c + 1, hi>>,
         third_tier |-> <<hi + 1, n>>]

\* the postings of one term that fall into one tier
tier_postings(post, name) ==
    LET order == sorted_postings(post)
        bounds == tier_bounds(Len(order))[name]
        docs == {order[i] : i \in bounds[1]..bounds[2]}
    IN  [d \in docs |-> post[d]]

\* {"first_tier": {...}, "second_tier": {...}, "third_tier": {...}}, each
\* shaped like a field index; a term is a key of a tier that holds one of
\* its postings
tier_build(fidx) ==
    [name \in TierNames |->
        [t \in {u \in DOMAIN fidx : tier_postings(fidx[u], name) # EmptyDict} |->
            tier_postings(fidx[t], name)]]

(***************************************************************************)
(* The arguments the scorers are called with.                              *)
(***************************************************************************)
\* the method strings "(n|l)(n|t)(n|c).(n|l)(n|t)(n|c)"
Schemes == {<<tf, idf, norm>> : tf \in {"n", "l"}, idf \in {"n", "t"}, norm \in {"n", "c"}}
VectorSpaceMethods == {d \o <<".">> \o qm : d \in Schemes, qm \in Schemes}
M_unigram == <<"u", "n", "i", "g", "r", "a", "m">>
M_okapiBM25 == <<"o", "k", "a", "p", "i", "B", "M", "2", "5">>
\* strings that are none of the documented methods: "x", "xyz.xyz",
\* "nnn.n", "n.nnn"
OtherMethods ==
    { <<"x">>, <<"x", "y", "z", ".", "x", "y", "z">>,
      <<"n", "n", "n", ".", "n">>, <<"n", ".", "n", "n", "n">> }

SmoothingMethods == {"bayes", "mixture", "naive"}
\* "other" is none of the documented smoothing methods
SmoothingArguments == SmoothingMethods \cup {"other"}

\* tokenized queries, and queries as the str that preprocess() returns
TokenQueries ==
    {Tokens(ts) : ts \in { <<>>, <<S_a>>, <<S_b>>, << <<"z">> >>, <<S_a, S_b>>,
                           <<S_b, S_a>>, <<S_a, S_a>> }}
StrQueries == {Str(S_a), Str(S_ab), Str(<<"a", "b">>), Str(<<"z">>)}

\* document_lengths: a length for every document id, not all of them 0
LengthValues == {0, 2}
LengthTables == {t \in [Ids -> LengthValues] : SumOf(t, Ids) > 0}


(***************************************************************************)
(* One query as a state machine.                                           *)
(***************************************************************************)
\* one query of SearchEngine.search
VARIABLES
    weights,        \* the weights argument of search
    max_results,    \* the max_results argument of search
    scores,         \* the per-field score maps, after "field_scores[doc] *= w"
    final_scores,   \* what aggregate_scores returned
    result,         \* what search returned
    status          \* "idle", "returned", or the exception search raised

search_vars == <<weights, max_results, scores, final_scores, result, status>>

\* one call of a scorer, or of search with a query, a method and a smoothing
\* method
VARIABLES
    scored          \* the call: function, field, arguments and what it returned

scorer_vars == <<scored>>

ScorerCall(fn, field, q, method, smoothing_method, document_lengths, outcome) ==
    [fn |-> fn, field |-> field, query |-> q, method |-> method,
     smoothing_method |-> smoothing_method, document_lengths |-> document_lengths,
     outcome |-> outcome]
NoScorerCall ==
    ScorerCall("-", "-", Tokens(<<>>), <<>>, "-", [i \in Ids |-> 0], NoneResult)

\* the build of the tiered index of one field
VARIABLES
    tier_source,    \* the field index the tiers are built from
    tiered_index    \* the tiered index, once built

tier_vars == <<tier_source, tiered_index>>

NoTiers == [name \in TierNames |-> EmptyDict]
TiersIdle == tier_source = EmptyDict /\ tiered_index = NoTiers

NoScores == [f \in AllFields |-> <<>>]
NoWeights == [f \in {} |-> 0]

QueryIdle(none) ==
    /\ weights = NoWeights
    /\ max_results = NoLimit
    /\ scores = NoScores
    /\ final_scores = <<>>
    /\ result = <<>>
    /\ status = none

\* after a KeyError nothing of the query is left but the exception
SearchRaises(w, mr) ==
    /\ weights' = w
    /\ max_results' = mr
    /\ scores' = NoScores
    /\ final_scores' = <<>>
    /\ result' = <<>>
    /\ status' = "KeyError"

SearchReturns(w, mr, field_scores) ==
    LET ws == apply_weights(w, field_scores)
        fs == aggregate_scores(ws)
    IN  /\ weights' = w
        /\ max_results' = mr
        /\ scores' = ws
        /\ final_scores' = fs
        /\ result' = truncate(sorted_by_score(fs), mr)
        /\ status' = "returned"

\* SearchEngine.search from the scorers' results on.  aggregate_scores
\* needs a weight and a score map for each of the three fields: with method
\* "unigram" the three fields are scored whatever the weights are and
\* weights[field] raises KeyError for a field without weight; with another
\* method only the fields of "for field in weights" are scored and
\* scores[Indexes.X] raises KeyError for a field that was not scored.
Search ==
    /\ status = "idle"
    /\ \E w \in WeightMaps, mr \in MaxResultsValues :
           IF DOMAIN w # AllFields
           THEN SearchRaises(w, mr)
           ELSE \E field_scores \in [AllFields -> ScoreMaps] :
                    SearchReturns(w, mr, field_scores)
    /\ UNCHANGED <<index_vars, scorer_vars, tier_vars>>

(***************************************************************************)
(* Index: the calls on a built index.                                      *)
(***************************************************************************)
\* the state after Index(preprocessed_documents), for a corpus of at most
\* max documents
IndexInit(max) ==
    /\ preprocessed_documents \in CorporaUpTo(max)
    /\ index = build(preprocessed_documents)
    /\ returned = NoCall
    /\ trip = NoTrip
    /\ mutations = 0
    /\ metadata_index = NoMetadata
    /\ files = EmptyDict
    /\ io = [op |-> "-", path |-> <<>>, index_type |-> "-", raised |-> ""]
    /\ threads = <<>>

\* Metadata_index(path): the corpus is read from preprocessed_data.json, not
\* from the document store of the index
CreateMetadataIndex ==
    /\ ~metadata_index.built
    /\ metadata_index' = create_metadata_index(preprocessed_documents)
    /\ UNCHANGED <<preprocessed_documents, index, returned, trip, mutations, files, io, threads>>
    /\ UNCHANGED <<search_vars, scorer_vars, tier_vars>>

GetPostingList ==
    \E word \in Terms, index_type \in IndexTypes :
        /\ returned' = Call("get_posting_list", index_type \in KnownIndexTypes,
                            get_posting_list(index, word, index_type))
        /\ UNCHANGED <<preprocessed_documents, index, trip, mutations, metadata_index, files, io, threads>>
        /\ UNCHANGED <<search_vars, scorer_vars, tier_vars>>

AddDocument ==
    \E document \in Docs :
        /\ mutations < MaxOps
        /\ LET r == add_document_to_index(index, document)
           IN  /\ index' = r.index
               /\ returned' = Call("add_document_to_index", TRUE,
                                   IF r.raised THEN Raised("TypeError") ELSE ReturnsNone)
               /\ trip' = [stage |-> IF document.id \in DOMAIN index.documents
                                     THEN "readded" ELSE "added",
                           doc |-> document,
                           raised |-> r.raised,
                           before |-> index]
        /\ mutations' = mutations + 1
        /\ UNCHANGED <<preprocessed_documents, metadata_index, files, io, threads>>
        /\ UNCHANGED <<search_vars, scorer_vars, tier_vars>>

RemoveDocument ==
    \E document_id \in Ids :
        /\ mutations < MaxOps
        /\ index' = remove_document_from_index(index, document_id)
        /\ returned' = Call("remove_document_from_index", TRUE, ReturnsNone)
        /\ trip' = IF trip.stage = "added" /\ trip.doc.id = document_id
                   THEN [trip EXCEPT !.stage = "removed"]
                   ELSE NoTrip
        /\ mutations' = mutations + 1
        /\ UNCHANGED <<preprocessed_documents, metadata_index, files, io, threads>>
        /\ UNCHANGED <<search_vars, scorer_vars, tier_vars>>

\* store_index(path, index_type) for a field or an unknown index type
StoreIndex ==
    \E path \in Paths, index_type \in IndexableFields \cup {"title"} :
        /\ LET r == store_index(files, index, path, index_type)
           IN  /\ files' = r.files
               /\ io' = [op |-> "store_index", path |-> path,
                         index_type |-> index_type, raised |-> r.raised]
        /\ UNCHANGED <<preprocessed_documents, index, returned, trip, mutations,
                       metadata_index, threads>>
        /\ UNCHANGED <<search_vars, scorer_vars, tier_vars>>

LoadIndex ==
    \E path \in Paths, index_type \in IndexableFields \cup {"title"} :
        /\ LET r == load_index(files, index, path, index_type)
           IN  /\ files' = r.files
               /\ index' = r.index
               /\ io' = [op |-> "load_index", path |-> path,
                         index_type |-> index_type, raised |-> r.raised]
        /\ UNCHANGED <<preprocessed_documents, returned, trip, mutations, metadata_index,
                       threads>>
        /\ UNCHANGED <<search_vars, scorer_vars, tier_vars>>

\* two add_document_to_index calls begin, for documents without a null
\* field whose ids are fresh and distinct
StartAdds ==
    /\ threads = <<>>
    /\ \E d1, d2 \in {d \in Docs : \A f \in IndexableFields : ~d[f].null} :
           /\ d1.id # d2.id
           /\ {d1.id, d2.id} \cap DOMAIN index.documents = {}
           /\ \E w1 \in add_work(d1), w2 \in add_work(d2) :
                  threads' = <<[pc |-> "start", document |-> d1, work |-> w1, alone |-> TRUE],
                               [pc |-> "start", document |-> d2, work |-> w2, alone |-> TRUE]>>
    /\ UNCHANGED <<preprocessed_documents, index, returned, trip, mutations,
                   metadata_index, files, io>>
    /\ UNCHANGED <<search_vars, scorer_vars, tier_vars>>

\* one of the calls takes its next step
AddStep ==
    /\ threads # <<>>
    /\ \E t \in 1..2 :
           /\ threads[t].pc # "done"
           /\ LET r == add_step(index, threads[t])
                  began == threads[t].pc = "start"
                  other == threads[3 - t].pc
              IN  /\ index' = r.index
                  /\ threads' = [threads EXCEPT ![t] =
                                    [r.thread EXCEPT !.alone =
                                        IF began THEN other \in {"start", "done"} ELSE @]]
    /\ UNCHANGED <<preprocessed_documents, returned, trip, mutations,
                   metadata_index, files, io>>
    /\ UNCHANGED <<search_vars, scorer_vars, tier_vars>>

(***************************************************************************)
(* Scorer: one call on the field index of a built corpus.                  *)
(***************************************************************************)
\* metadata_index.index['document_count']
document_count == Len(preprocessed_documents)

VectorSpace ==
    /\ scored = NoScorerCall
    /\ \E field \in IndexableFields, q \in TokenQueries \cup StrQueries,
          method \in VectorSpaceMethods \cup OtherMethods :
          \E docs \in Orders(get_list_of_documents(index[field], q)) :
              scored' = ScorerCall("compute_scores_with_vector_space_model", field, q,
                                   method, "-", [i \in Ids |-> 0],
                                   compute_scores_with_vector_space_model(
                                       index[field], document_count, q, method, docs))
    /\ UNCHANGED <<index_vars, search_vars, tier_vars>>

OkapiBM25 ==
    /\ scored = NoScorerCall
    /\ \E field \in IndexableFields, q \in TokenQueries \cup StrQueries,
          document_lengths \in LengthTables :
          scored' = ScorerCall("compute_socres_with_okapi_bm25", field, q,
                               M_okapiBM25, "-", document_lengths,
                               compute_socres_with_okapi_bm25(
                                   index[field], document_count, q,
                                   Div(SumOf(document_lengths, Ids) * Scale, NumIds * Scale),
                                   document_lengths))
    /\ UNCHANGED <<index_vars, search_vars, tier_vars>>

Unigram ==
    /\ scored = NoScorerCall
    /\ \E field \in IndexableFields, q \in TokenQueries \cup StrQueries,
          smoothing_method \in SmoothingArguments, document_lengths \in LengthTables :
          \E documents \in Orders(get_list_of_documents(index[field], q)) :
              scored' = ScorerCall("compute_scores_with_unigram_model", field, q,
                                   M_unigram, smoothing_method, document_lengths,
                                   compute_scores_with_unigram_model(
                                       index[field], q, smoothing_method,
                                       document_lengths, documents))
    /\ UNCHANGED <<index_vars, search_vars, tier_vars>>

(***************************************************************************)
(* SearchEngine.search with safe_ranking: the field scorers, then the      *)
(* aggregation and the tail of search.                                     *)
(***************************************************************************)
\* the order in which the three fields are scored
FieldOrder == <<"stars", "genres", "summaries">>

\* the weights of the call in __main__
UnitWeights == [f \in AllFields |-> 1]

\* the methods search is called with, each with a smoothing method ("-" is
\* the default None)
SearchArguments ==
    {<<m, "-">> : m \in VectorSpaceMethods \cup OtherMethods \cup {M_okapiBM25}}
    \cup {<<M_unigram, sm>> : sm \in SmoothingArguments}

NoLengths == [f \in AllFields |-> [i \in Ids |-> 0]]

\* find_scores_with_unigram_model / find_scores_with_safe_ranking: the
\* scorer of one field; docs is what get_list_of_documents returned
find_scores(idx, N, q, method, smoothing_method, document_lengths, docs) ==
    IF method = M_unigram
    THEN compute_scores_with_unigram_model(idx, q, smoothing_method, document_lengths, docs)
    ELSE IF method = M_okapiBM25
    THEN compute_socres_with_okapi_bm25(idx, N, q, Scale, document_lengths)
    ELSE compute_scores_with_vector_space_model(idx, N, q, method, docs)

\* an exception leaves nothing of the query but the exception
SearchFails(w, mr, exc) ==
    /\ weights' = w
    /\ max_results' = mr
    /\ scores' = NoScores
    /\ final_scores' = <<>>
    /\ result' = <<>>
    /\ status' = exc

\* an exception of a field scorer ends the call; a field scored None makes
\* "field_scores.keys()" of aggregate_scores raise AttributeError
SearchQuery ==
    /\ status = "idle"
    /\ scored = NoScorerCall
    /\ \E q \in StrQueries, ms \in SearchArguments, mr \in {NoLimit, Limit(1)} :
       \E document_lengths \in (IF ms[1] = M_unigram
                                THEN [AllFields -> LengthTables] ELSE {NoLengths}) :
       \E docs \in [AllFields -> UNION {Orders(S) : S \in SUBSET Ids}] :
          /\ \A f \in AllFields :
                 docs[f] \in Orders(get_list_of_documents(index[f], q))
          /\ LET outs == [f \in AllFields |->
                            find_scores(index[f], document_count, q, ms[1], ms[2],
                                        document_lengths[f], docs[f])]
                 raised == [i \in 1..Len(FieldOrder) |->
                              IF outs[FieldOrder[i]].kind \in {"scores", "None"}
                              THEN Value(0) ELSE Raise(outs[FieldOrder[i]].kind)]
             IN  /\ scored' = ScorerCall("search", "-", q, ms[1], ms[2],
                                         document_lengths, NoneResult)
                 /\ IF FirstRaised(raised) # ""
                    THEN SearchFails(UnitWeights, mr, FirstRaised(raised))
                    ELSE IF ms[1] = M_okapiBM25
                    THEN SearchFails(UnitWeights, mr, "AttributeError")
                    ELSE SearchReturns(UnitWeights, mr, [f \in AllFields |-> outs[f].map])
    /\ UNCHANGED <<index_vars, tier_vars>>

(***************************************************************************)
(* Tiered index: the build from one field index.                           *)
(***************************************************************************)
BuildTiers ==
    /\ tiered_index = NoTiers
    /\ tiered_index' = tier_build(tier_source)
    /\ UNCHANGED <<tier_source, index_vars, search_vars, scorer_vars>>

(***************************************************************************)
(* SearchEngine.find_scores_with_unsafe_ranking for one field: the scorer  *)
(* on each tier in turn, the results put into one dict.                    *)
(***************************************************************************)
\* the largest number of documents of a field index that is ranked
MaxRanked == 3

\* for tier in ["first_tier", "second_tier", "third_tier"]
TierOrder == <<"first_tier", "second_tier", "third_tier">>

\* field_scores.update(other)
RECURSIVE update(_, _)
update(d, other) ==
    IF other = <<>> THEN d
    ELSE update(Update(d, Head(other).doc, Head(other).score), Tail(other))

\* docs[tier] is the list get_list_of_documents returned for the tier; the
\* first tier whose scorer raises ends the call, and update(None) of the
\* BM25 scorer raises TypeError
find_scores_with_unsafe_ranking(tiers, N, q, method, docs) ==
    LET outs == [k \in 1..Len(TierOrder) |->
                    IF method = M_okapiBM25
                    THEN compute_socres_with_okapi_bm25(tiers[TierOrder[k]], N, q, Scale,
                                                        [i \in Ids |-> 0])
                    ELSE compute_scores_with_vector_space_model(
                             tiers[TierOrder[k]], N, q, method, docs[TierOrder[k]])]
        failed == {k \in 1..Len(TierOrder) : outs[k].kind # "scores"}
        first == CHOOSE k \in failed : \A j \in failed : k <= j
    IN  IF failed # {}
        THEN IF outs[first].kind = "None" THEN Raises("TypeError") ELSE outs[first]
        ELSE Scores(update(update(outs[1].map, outs[2].map), outs[3].map))

\* the documents of a field index
DocumentsOf(fidx) == UNION {DOMAIN fidx[t] : t \in DOMAIN fidx}

\* one unsafe ranking of a tokenized query on the built tiers, under a
\* document scheme and the query scheme nnn, or BM25; the corpus holds the
\* documents TierIds, so document_count is MaxPostings
UnsafeRanking ==
    /\ tiered_index # NoTiers
    /\ scored = NoScorerCall
    /\ Cardinality(DocumentsOf(tier_source)) <= MaxRanked
    /\ \E q \in TokenQueries,
          method \in {d \o <<".", "n", "n", "n">> : d \in Schemes} \cup {M_okapiBM25} :
       \E d1 \in Orders(get_list_of_documents(tiered_index.first_tier, q)),
          d2 \in Orders(get_list_of_documents(tiered_index.second_tier, q)),
          d3 \in Orders(get_list_of_documents(tiered_index.third_tier, q)) :
          scored' = ScorerCall("find_scores_with_unsafe_ranking", "-", q, method, "-",
                               [i \in Ids |-> 0],
                               find_scores_with_unsafe_ranking(
                                   tiered_index, MaxPostings, q, method,
                                   [first_tier |-> d1, second_tier |-> d2,
                                    third_tier |-> d3]))
    /\ UNCHANGED <<tier_source, tiered_index, index_vars, search_vars>>

(***************************************************************************)
(* Specifications.  The index and a query share no state: each             *)
(* specification moves one of them and holds the other still.              *)
(***************************************************************************)
vars == <<index_vars, search_vars, scorer_vars, tier_vars>>

\* the index under lookups, adds and removes
Init == IndexInit(MaxCorpus) /\ QueryIdle("idle") /\ scored = NoScorerCall /\ TiersIdle
Next == GetPostingList \/ AddDocument \/ RemoveDocument \/ CreateMetadataIndex
Spec == Init /\ [][Next]_vars

\* the freshly built index under lookups
BuildInit == IndexInit(MaxBuild) /\ QueryIdle("idle") /\ scored = NoScorerCall /\ TiersIdle
BuildNext == GetPostingList \/ CreateMetadataIndex
SpecBuild == BuildInit /\ [][BuildNext]_vars

\* one query, the index being the one of the empty corpus
SearchInit == IndexInit(0) /\ QueryIdle("idle") /\ scored = NoScorerCall /\ TiersIdle
SearchNext == Search
SpecSearch == SearchInit /\ [][SearchNext]_vars

\* two adds that run at the same time on the built index
SpecConcurrent == Init /\ [][StartAdds \/ AddStep]_vars

\* the built index stored and loaded
SpecPersist == Init /\ [][StoreIndex \/ LoadIndex]_vars

\* one call of a scorer on a field index of a built corpus
ScorerInit == IndexInit(MaxBuild) /\ QueryIdle("idle") /\ scored = NoScorerCall /\ TiersIdle
ScorerNext == VectorSpace \/ OkapiBM25 \/ Unigram \/ SearchQuery
SpecScorer == ScorerInit /\ [][ScorerNext]_vars

\* the tiers built from a field index
TierInit ==
    /\ IndexInit(0) /\ QueryIdle("idle") /\ scored = NoScorerCall
    /\ tier_source \in TierSources
    /\ tiered_index = NoTiers
TierNext == BuildTiers \/ UnsafeRanking
SpecTier == TierInit /\ [][TierNext]_vars

(***************************************************************************)
(* What the claims speak of, stated without the indexing code.             *)
(***************************************************************************)
\* w stands at position i of s as a whole token: blanks or the ends of s
\* on both sides
IsTokenAt(s, i, w) ==
    /\ i + Len(w) - 1 <= Len(s)
    /\ SubSeq(s, i, i + Len(w) - 1) = w
    /\ (i = 1 \/ s[i - 1] = SP)
    /\ (i + Len(w) > Len(s) \/ s[i + Len(w)] = SP)

Occurrences(s, w) == Cardinality({i \in 1..Len(s) : IsTokenAt(s, i, w)})

RECURSIVE SumOccurrences(_, _)
SumOccurrences(entries, w) ==
    IF entries = <<>> THEN 0
    ELSE Occurrences(Head(entries), w) + SumOccurrences(Tail(entries), w)

\* occurrences of w among all tokens of all entries of a field; a null
\* field has none
FieldOccurrences(fv, w) == IF fv.null THEN 0 ELSE SumOccurrences(fv.entries, w)

\* the stored tf of (term, id) in a field index, 0 when there is no posting
StoredTf(fidx, w, id) ==
    IF w \in DOMAIN fidx /\ id \in DOMAIN fidx[w] THEN fidx[w][id] ELSE 0

AllTerms == Terms \cup DOMAIN index.stars \cup DOMAIN index.genres
               \cup DOMAIN index.summaries

\* C1: a successful add of a document whose id is not in the store,
\* followed by the removal of that id, leaves the four indexes equal to
\* their state before the add.
C1_AddRemoveRoundTrip ==
    (trip.stage = "removed" /\ ~trip.raised) => index = trip.before

C5_AbsentTermIsEmpty ==
    /\ \A field \in IndexableFields, word \in Terms :
           word \notin DOMAIN index[field] =>
               get_posting_list(index, word, field) = EmptyList
    /\ \A word \in Terms : get_posting_list(index, word, "documents") = EmptyList
    /\ (returned.op = "get_posting_list" /\ returned.known_type) =>
           (returned.value.kind \in {"keys", "list"}
            /\ (returned.value.kind = "list" => returned.value.ids = {}))

\* a lookup returned the empty list after the index was mutated
C5_Witness ==
    /\ returned.op = "get_posting_list"
    /\ returned.value = EmptyList
    /\ mutations > 0

\* C6: get_posting_list with an unknown index type reports an
\* invalid-request error.
C6_UnknownTypeIsError ==
    (returned.op = "get_posting_list" /\ ~returned.known_type) =>
        returned.value.kind \in {"ValueError", "KeyError"}

\* C7: a term key is present in a field index only if at least one
\* document has a posting for it.
C7_TermKeyInvariant ==
    \A field \in IndexableFields :
        \A term \in DOMAIN index[field] : DOMAIN index[field][term] # {}

\* C8: after a successful add of a document whose id is already in the
\* store, the stored record is the new document and every posting of the id
\* holds the tf of the new document only; terms of the old version alone
\* no longer list the id.
C8_ReAddOverwrites ==
    (trip.stage = "readded" /\ ~trip.raised) =>
        /\ index.documents[trip.doc.id] = trip.doc
        /\ \A field \in IndexableFields, term \in AllTerms :
               StoredTf(index[field], term, trip.doc.id)
                 = FieldOccurrences(trip.doc[field], term)

\* a score map as a function, the order of its items forgotten
AsMap(d) == [k \in KeysOf(d) |-> ScoreOf(d, k)]

\* the query returned and every field has a weight of at least 1
ReturnedWeighted ==
    /\ status = "returned"
    /\ \A f \in AllFields : weights[f] >= 1

\* the weighted score of a document in a field, 0 when the field's map does
\* not list it
WeightedScore(field, doc) ==
    IF doc \in KeysOf(scores[field]) THEN ScoreOf(scores[field], doc) ELSE 0

\* C3: for field weights of at least 1, the aggregated map lists exactly the
\* documents of the three weighted field maps, each with the sum of its
\* weighted scores over the fields that list it.
C3_UnionMerge ==
    ReturnedWeighted =>
        /\ KeysOf(final_scores) = KeysOf(scores["stars"]) \cup KeysOf(scores["genres"])
                                    \cup KeysOf(scores["summaries"])
        /\ \A doc \in KeysOf(final_scores) :
               ScoreOf(final_scores, doc)
                 = WeightedScore("stars", doc) + WeightedScore("genres", doc)
                   + WeightedScore("summaries", doc)

\* C4: merge_scores is commutative and associative on the weighted field
\* maps (weights of at least 1), empty maps included.
C4_MergeCommutativeAssociative ==
    ReturnedWeighted =>
        LET A == scores["stars"]
            B == scores["genres"]
            C == scores["summaries"]
        IN  /\ AsMap(merge_scores(A, B)) = AsMap(merge_scores(B, A))
            /\ AsMap(merge_scores(merge_scores(A, B), C))
                 = AsMap(merge_scores(A, merge_scores(B, C)))

\* C9: the list search returns (field weights of at least 1) is in
\* descending order of score, documents of equal score in ascending order
\* of id.
C9_ResultOrdering ==
    ReturnedWeighted =>
        \A i, j \in 1..Len(result) :
            i < j => \/ result[i].score > result[j].score
                     \/ /\ result[i].score = result[j].score
                        /\ result[i].doc < result[j].doc

\* C10: with max_results an integer k >= 0 search returns the first
\* min(k, n) entries of the full ranking of the n scored documents, with
\* max_results None all n.
C10_ResultSizeBound ==
    status = "returned" =>
        LET full == sorted_by_score(final_scores)
            n == Len(full)
        IN  /\ Len(result) = IF max_results.none THEN n
                             ELSE IF max_results.k < n THEN max_results.k ELSE n
            /\ \A i \in 1..Len(result) : result[i] = full[i]

\* a query whose ranking of two documents was cut to the first one
C10_Witness ==
    /\ status = "returned"
    /\ ~max_results.none
    /\ max_results.k = 1
    /\ Len(final_scores) = 2
    /\ Len(result) = 1
    /\ result[1].score > 0

(***************************************************************************)
(* The scorer calls, stated without the scoring code.                      *)
(***************************************************************************)
ScorerFunctions ==
    {"compute_scores_with_vector_space_model", "compute_socres_with_okapi_bm25",
     "compute_scores_with_unigram_model"}

\* the posting source of the call
PostingSource == index[scored.field]

\* the terms of a tokenized query, of a str query its words
QueryTerms ==
    IF scored.query.is_str THEN split(scored.query.items) ELSE scored.query.items

\* tf of a term in a document of the posting source, 0 without a posting
PostedTf(term, doc) ==
    IF term \in DOMAIN PostingSource /\ doc \in DOMAIN PostingSource[term]
    THEN PostingSource[term][doc] ELSE 0

\* the documents with a posting for at least one query term
Candidates ==
    {d \in Ids : \E i \in 1..Len(QueryTerms) : PostedTf(QueryTerms[i], d) > 0}

ReturnedScores == scored.outcome.kind = "scores"
ScoredDocs == KeysOf(scored.outcome.map)

\* number of documents with a posting for the term
Df(term) ==
    IF term \in DOMAIN PostingSource THEN Cardinality(DOMAIN PostingSource[term]) ELSE 0

\* C11: an unknown ranking method or an unknown smoothing method passed to
\* search is reported as an error; it never yields a ranking.
C11_UnknownMethodIsError ==
    (/\ scored.fn = "search"
     /\ \/ scored.method \notin VectorSpaceMethods \cup {M_unigram, M_okapiBM25}
        \/ /\ scored.method = M_unigram
           /\ scored.smoothing_method \notin SmoothingMethods)
    => status \notin {"idle", "returned"}

\* sum over the distinct query terms of the query tf times the document tf
NaturalDotProduct(doc) ==
    LET ts == Range(QueryTerms)
        prod == [t \in ts |-> count(QueryTerms, t) * PostedTf(t, doc)]
    IN  SumOf(prod, ts) * Scale

\* C12: for a tokenized query and the documents with a posting for one of
\* its terms, the vector-space scorer returns a score for each of them and
\* raises no error for a query term the document or the index lacks; for
\* a query of one term under nnn.nnn the score is the document's tf.
C12_VectorSpaceScore ==
    (/\ scored.fn = "compute_scores_with_vector_space_model"
     /\ ~scored.query.is_str
     /\ scored.method \in VectorSpaceMethods
     /\ Candidates # {})
    => /\ ReturnedScores
       /\ ScoredDocs = Candidates
       /\ (/\ scored.method = <<"n", "n", "n", ".", "n", "n", "n">>
           /\ Len(QueryTerms) = 1)
          => \A d \in Candidates :
                 ScoreOf(scored.outcome.map, d) = NaturalDotProduct(d)

\* C13: a query term with df = 0 is skipped by the scorer that uses the
\* idf: no ZeroDivisionError; with df > 0 the idf is ln(document_count / df).
C13_IdfOfAbsentTerm ==
    (/\ scored.fn = "compute_scores_with_vector_space_model"
     /\ ~scored.query.is_str
     /\ scored.method \in VectorSpaceMethods)
    => /\ scored.outcome.kind # "ZeroDivisionError"
       /\ \A i \in 1..Len(QueryTerms) :
              Df(QueryTerms[i]) > 0 =>
                  get_idf(PostingSource, document_count, QueryTerms[i])
                      = Value(LnTable[document_count] - LnTable[Df(QueryTerms[i])])

\* the weight vector of a document before normalization, by the first two
\* letters of its scheme
UnnormalizedDocVector(doc) ==
    [i \in 1..Len(QueryTerms) |->
        Mul(IF scored.method[1] = "l"
            THEN Scale + LnTable[PostedTf(QueryTerms[i], doc)]
            ELSE PostedTf(QueryTerms[i], doc) * Scale,
            IF scored.method[2] = "t"
            THEN LnTable[document_count] - LnTable[Df(QueryTerms[i])]
            ELSE Scale)]

SquaredNorm(vec) == Sum([i \in 1..Len(vec) |-> Mul(vec[i], vec[i])])

\* C14: with the normalization letter 'c' the normalized weight vector of
\* a document has squared norm 1 (within 5 percent, for the rounding),
\* whenever the vector is not zero.
C14_CosineNormalization ==
    (/\ scored.fn = "compute_scores_with_vector_space_model"
     /\ ~scored.query.is_str
     /\ scored.method \in VectorSpaceMethods
     /\ scored.method[3] = "c"
     /\ ReturnedScores)
    => \A d \in ScoredDocs :
           LET vec == UnnormalizedDocVector(d)
               unit == normalize(<<scored.method[1], scored.method[2], "c">>, vec)
           IN  SquaredNorm(vec) > 0 =>
                   /\ 20 * SquaredNorm(unit) >= 19 * Scale
                   /\ 20 * SquaredNorm(unit) <= 21 * Scale

\* C15: for a tokenized query each of the three scorers returns a mapping
\* whose keys are exactly the documents with a posting for at least one
\* query term, each with a non-negative score.
C15_ScorerDomain ==
    (/\ scored.fn \in ScorerFunctions
     /\ ~scored.query.is_str
     /\ scored.method \in VectorSpaceMethods \cup {M_unigram, M_okapiBM25}
     /\ scored.smoothing_method \in SmoothingMethods \cup {"-"})
    => /\ ReturnedScores
       /\ ScoredDocs = Candidates
       /\ \A d \in ScoredDocs : ScoreOf(scored.outcome.map, d) >= 0

\* the mean of the document lengths handed to the BM25 scorer
AverageLength == Div(SumOf(scored.document_lengths, Ids) * Scale, NumIds * Scale)

\* idf * tf*(k1+1) / (tf + k1*(1 - b + b*Ld/avg_len)), k1 = 1.5, b = 0.75;
\* 0 for tf = 0
BM25Contribution(term, doc) ==
    LET tf == PostedTf(term, doc) * Scale
        k1 == (3 * Scale) \div 2
        b == (3 * Scale) \div 4
        Ld == scored.document_lengths[doc] * Scale
        idf == LnTable[document_count] - LnTable[Df(term)]
    IN  IF tf = 0 THEN 0
        ELSE Mul(idf, Div(Mul(tf, k1 + Scale),
                          tf + Mul(k1, Scale - b + Mul(b, Div(Ld, AverageLength)))))

\* C16: the BM25 scorer returns, for each document with a posting for a
\* query term, the sum over the query terms of the BM25 contribution.
C16_OkapiBM25Score ==
    (/\ scored.fn = "compute_socres_with_okapi_bm25"
     /\ ~scored.query.is_str)
    => /\ ReturnedScores
       /\ ScoredDocs = Candidates
       /\ \A d \in ScoredDocs :
              ScoreOf(scored.outcome.map, d)
                  = Sum([i \in 1..Len(QueryTerms) |-> BM25Contribution(QueryTerms[i], d)])

\* every document has a length above 0
LengthsPositive == \A d \in Ids : scored.document_lengths[d] > 0

\* C17: under naive smoothing a scored document that lacks a query term
\* gets the score 0, whether or not the term occurs elsewhere in the
\* index; no error is raised.
C17_NaiveSmoothingCollapse ==
    (/\ scored.fn = "compute_scores_with_unigram_model"
     /\ scored.query.is_str
     /\ scored.smoothing_method = "naive"
     /\ LengthsPositive)
    => /\ ReturnedScores
       /\ \A d \in ScoredDocs :
              (\E i \in 1..Len(QueryTerms) : PostedTf(QueryTerms[i], d) = 0)
                  => ScoreOf(scored.outcome.map, d) = 0

\* C18: under each smoothing method a candidate document of length 0 is
\* left out of the unigram result and causes no division by zero.
C18_ZeroLengthExcluded ==
    (/\ scored.fn = "compute_scores_with_unigram_model"
     /\ scored.query.is_str
     /\ scored.smoothing_method \in SmoothingMethods
     /\ \A i \in 1..Len(QueryTerms) : QueryTerms[i] \in DOMAIN PostingSource)
    => /\ scored.outcome.kind # "ZeroDivisionError"
       /\ ReturnedScores =>
              \A d \in ScoredDocs : scored.document_lengths[d] # 0

(***************************************************************************)
(* The tiers, stated without the build.                                    *)
(***************************************************************************)
TiersBuilt == tiered_index # NoTiers

\* the postings of a term in a tier, none when the tier lacks the term
TierOf(name, term) ==
    IF term \in DOMAIN tiered_index[name] THEN tiered_index[name][term] ELSE EmptyDict

\* number of postings of the term that rank above the posting of d
Rank(term, d) ==
    LET post == tier_source[term]
    IN  Cardinality({e \in DOMAIN post :
                       post[e] > post[d] \/ (post[e] = post[d] /\ e < d)})

\* the least k with 3 * k >= n
Ceil3(n) == CHOOSE k \in 0..n : 3 * k >= n /\ (k = 0 \/ 3 * (k - 1) < n)

\* C19: for every term of a built tiered index the three tiers are
\* pairwise disjoint, their union is the posting list of the term in the
\* field index, and each posting keeps its tf.
C19_TierPartition ==
    TiersBuilt =>
        /\ \A name \in TierNames : DOMAIN tiered_index[name] \subseteq DOMAIN tier_source
        /\ \A term \in DOMAIN tier_source :
              /\ \A n1, n2 \in TierNames :
                     n1 # n2 => DOMAIN TierOf(n1, term) \cap DOMAIN TierOf(n2, term) = {}
              /\ UNION {DOMAIN TierOf(name, term) : name \in TierNames}
                     = DOMAIN tier_source[term]
              /\ \A name \in TierNames : \A d \in DOMAIN TierOf(name, term) :
                     TierOf(name, term)[d] = tier_source[term][d]

\* the tiers of a term with seven postings, none of them empty
C19_Witness ==
    /\ TiersBuilt
    /\ Cardinality(DOMAIN tier_source[S_a]) = 7
    /\ \A name \in TierNames : TierOf(name, S_a) # EmptyDict
    /\ S_b \in DOMAIN tier_source

\* C20: with the n postings of a term ranked by (tf descending, id
\* ascending), tier 1 holds the first ceil(n/3), tier 2 the next ceil(n/3)
\* or all that remain, tier 3 the rest; seven postings give 3, 3 and 1.
C20_TierSizesAndOrder ==
    TiersBuilt =>
        \A term \in DOMAIN tier_source :
            LET post == tier_source[term]
                n == Cardinality(DOMAIN post)
                c == Ceil3(n)
            IN  /\ DOMAIN TierOf("first_tier", term)
                       = {d \in DOMAIN post : Rank(term, d) < c}
                /\ DOMAIN TierOf("second_tier", term)
                       = {d \in DOMAIN post : Rank(term, d) >= c /\ Rank(term, d) < 2 * c}
                /\ DOMAIN TierOf("third_tier", term)
                       = {d \in DOMAIN post : Rank(term, d) >= 2 * c}
                /\ n = 7 =>
                       /\ Cardinality(DOMAIN TierOf("first_tier", term)) = 3
                       /\ Cardinality(DOMAIN TierOf("second_tier", term)) = 3
                       /\ Cardinality(DOMAIN TierOf("third_tier", term)) = 1

\* seven postings with both tf values, a posting of tf 1 in the first tier
\* and one of tf 2 with a higher id than a posting of tf 1
C20_Witness ==
    /\ TiersBuilt
    /\ Cardinality(DOMAIN tier_source[S_a]) = 7
    /\ \E d \in DOMAIN TierOf("first_tier", S_a) : tier_source[S_a][d] = 1
    /\ \E d, e \in DOMAIN tier_source[S_a] :
           d < e /\ tier_source[S_a][d] = 1 /\ tier_source[S_a][e] = 2
    /\ Cardinality(DOMAIN TierOf("third_tier", S_a)) = 1

(***************************************************************************)
(* Metadata and the document store, stated without the indexing code.      *)
(***************************************************************************)
\* number of tokens of a string: the positions where a token starts
TokenCount(s) ==
    Cardinality({i \in 1..Len(s) : s[i] # SP /\ (i = 1 \/ s[i - 1] = SP)})

\* number of tokens of a field, every token of every entry; none for null
FieldTokenCount(fv) ==
    IF fv.null THEN 0
    ELSE Sum([i \in 1..Len(fv.entries) |-> TokenCount(fv.entries[i])])

\* for every field, term and id the stored tf is the number of occurrences
\* of the term in the document stored under the id, none when no document
\* is stored under it
AgreesWithStore(idx) ==
    \A field \in IndexableFields :
        /\ \A term \in DOMAIN idx[field] :
               \A id \in DOMAIN idx[field][term] : id \in DOMAIN idx.documents
        /\ \A term \in Terms \cup DOMAIN idx[field] :
               \A id \in DOMAIN idx.documents :
                   StoredTf(idx[field], term, id)
                     = FieldOccurrences(idx.documents[id][field], term)

\* C21: the metadata built from a corpus holds the number of documents of
\* the corpus and, per field, the sum over the documents of the number of
\* tokens of the field (every token of every entry, none for a null field)
\* divided by the number of documents.
C21_MetadataBuild ==
    (metadata_index.built /\ preprocessed_documents # <<>>) =>
        /\ metadata_index.document_count = Len(preprocessed_documents)
        /\ \A field \in IndexableFields :
               /\ ~metadata_index.averge_document_length[field].nan
               /\ metadata_index.averge_document_length[field].value
                    = Div(Sum([i \in 1..Len(preprocessed_documents) |->
                                 FieldTokenCount(preprocessed_documents[i][field])]),
                          Len(preprocessed_documents))

\* C22: once the metadata is built, its document_count is the number of
\* stored documents in every state (the code keeps no mark of staleness, so
\* nothing is ever marked stale).
C22_MetadataConsistentUnderMutation ==
    metadata_index.built =>
        metadata_index.document_count = Cardinality(DOMAIN index.documents)

\* C26: an add of a document with a fresh id, or a remove, applied to an
\* index that agrees with its document store gives an index that agrees
\* with its document store: a posting (id, tf) exactly for the stored
\* documents with tf >= 1 occurrences, and no posting of an id that is not
\* stored.
C26_IndexStoreAgreement ==
    [][(/\ AgreesWithStore(index)
        /\ returned'.op \in {"add_document_to_index", "remove_document_from_index"}
        /\ trip'.stage # "readded")
       => AgreesWithStore(index')]_vars

\* C27: adding a document with a fresh id to the index built from a corpus
\* raises nothing and gives the four indexes built from the corpus followed
\* by the document, also when a field of the document is null.
C27_AddAgreesWithBuild ==
    (mutations = 1 /\ trip.stage = "added") =>
        /\ ~trip.raised
        /\ index = build(Append(preprocessed_documents, trip.doc))

(***************************************************************************)
(* The vector-space scores under a changed index or query.                 *)
(***************************************************************************)
\* the posting source with the tf of one posting raised by one
IncreasedTf(idx, term, doc) == [idx EXCEPT ![term][doc] = @ + 1]

\* the documents of the returned map, in its order
ScoredOrder == [k \in 1..Len(scored.outcome.map) |-> scored.outcome.map[k].doc]

Unnormalized == scored.method[3] = "n" /\ scored.method[7] = "n"

\* C24: under a method without normalization, raising the tf of one posting
\* of a scored document for a query term, the index otherwise the same,
\* gives the document a score that is not lower.
C24_VsmMonotonicity ==
    (/\ scored.fn = "compute_scores_with_vector_space_model"
     /\ ~scored.query.is_str
     /\ scored.method \in VectorSpaceMethods
     /\ Unnormalized
     /\ ReturnedScores)
    => \A d \in ScoredDocs : \A i \in 1..Len(QueryTerms) :
           LET more == compute_scores_with_vector_space_model(
                           IncreasedTf(PostingSource, QueryTerms[i], d),
                           document_count, scored.query, scored.method, ScoredOrder)
           IN  /\ more.kind = "scores"
               /\ ScoreOf(more.map, d) >= ScoreOf(scored.outcome.map, d)

\* a call under a logarithmic tf and an idf weight returned a positive
\* score that a higher tf raises
C24_Witness ==
    /\ scored.fn = "compute_scores_with_vector_space_model"
    /\ ~scored.query.is_str
    /\ scored.method = <<"l", "t", "n", ".", "n", "n", "n">>
    /\ ReturnedScores
    /\ \E d \in ScoredDocs :
           /\ ScoreOf(scored.outcome.map, d) > 0
           /\ ScoreOf(compute_scores_with_vector_space_model(
                          IncreasedTf(PostingSource, QueryTerms[1], d),
                          document_count, scored.query, scored.method,
                          ScoredOrder).map, d)
                > ScoreOf(scored.outcome.map, d)

\* C29: under nnn.nnn a query that holds a term k times gives a document
\* with tf occurrences of the term the contribution k * tf: the score is
\* the sum over the distinct query terms of query tf times document tf.
C29_RepeatedQueryTerms ==
    (/\ scored.fn = "compute_scores_with_vector_space_model"
     /\ ~scored.query.is_str
     /\ scored.method = <<"n", "n", "n", ".", "n", "n", "n">>
     /\ ReturnedScores)
    => \A d \in ScoredDocs :
           ScoreOf(scored.outcome.map, d) = NaturalDotProduct(d)

\* C23: a field whose weight is 0, or that has no weight, does not make the
\* query fail, is not scored and brings no document into the result: the
\* documents of the final scores are those of the fields with a weight
\* other than 0.
C23_FieldSelectionByWeight ==
    status # "idle" =>
        /\ status = "returned"
        /\ \A f \in AllFields :
               (f \notin DOMAIN weights \/ weights[f] = 0) => scores[f] = <<>>
        /\ KeysOf(final_scores)
             \subseteq UNION {KeysOf(scores[f]) :
                                f \in {g \in DOMAIN weights : weights[g] # 0}}

\* C28: for a query of two or more terms under a method without
\* normalization, whenever the safe ranking of the field index returns a
\* score map, the unsafe ranking over the three tiers returns a map with the
\* same documents and the same score for each of them.
C28_UnsafeAgreesWithSafe ==
    (/\ scored.fn = "find_scores_with_unsafe_ranking"
     /\ scored.method \in VectorSpaceMethods
     /\ Unnormalized
     /\ Len(QueryTerms) >= 2)
    => \A docs \in Orders(get_list_of_documents(tier_source, scored.query)) :
           LET safe == compute_scores_with_vector_space_model(
                           tier_source, MaxPostings, scored.query, scored.method, docs)
           IN  safe.kind = "scores" =>
                   /\ ReturnedScores
                   /\ AsMap(scored.outcome.map) = AsMap(safe.map)

\* C25: load_index(path, field), called when store_index(path, field) has
\* written its file, raises nothing and leaves a field index that equals
\* the stored one, so that check_if_index_loaded_correctly(field, stored)
\* is true.
C25_PersistenceRoundTrip ==
    LET stored == io.path \o <<io.index_type, "_index.json">>
    IN  (/\ io.op = "load_index"
         /\ io.index_type \in IndexableFields
         /\ stored \in DOMAIN files
         /\ ~files[stored].dir)
        => /\ io.raised = ""
           /\ check_if_index_loaded_correctly(index, io.index_type,
                                              json_load(files[stored].text))

(***************************************************************************)
(* Two adds at the same time, against the two adds one after the other.    *)
(***************************************************************************)
AllDone == threads # <<>> /\ \A t \in 1..2 : threads[t].pc = "done"

\* the index after the add of the document of thread i, then of thread j
Serial(i, j) ==
    add_document_to_index(
        add_document_to_index(build(preprocessed_documents), threads[i].document).index,
        threads[j].document).index

\* the two documents hold a common term in a field
ShareTerm ==
    \E f \in IndexableFields :
        Range(add_words(threads[1].document[f]))
            \cap Range(add_words(threads[2].document[f])) # {}

\* C30 as claimed: when both calls are done, however their steps were
\* interleaved, the index is the one that the two adds give in one of the
\* two serial orders.
C30_ConcurrentAddsSerializable ==
    AllDone => index \in {Serial(1, 2), Serial(2, 1)}

\* C30 as amended: when neither call began while the other was running,
\* the index is the one that the two adds give in either order, and it
\* holds every posting of both documents.
C30_SerializedAdds ==
    (AllDone /\ threads[1].alone /\ threads[2].alone) =>
        /\ index = Serial(1, 2)
        /\ index = Serial(2, 1)
        /\ AgreesWithStore(index)

\* two calls that did not overlap are done, for documents that share a
\* term, and the term lists both documents
C30_Witness ==
    /\ AllDone /\ threads[1].alone /\ threads[2].alone
    /\ ShareTerm
    /\ \E f \in IndexableFields : \E term \in DOMAIN index[f] :
           {threads[1].document.id, threads[2].document.id} \subseteq DOMAIN index[f][term]

====
